---- MODULE Spec2Model ----
(***************************************************************************)
(* LRC-Video-Generator: the lyric timeline, the preview window selector,   *)
(* the text-animation expressions, the filter-graph composer and the       *)
(* render driver with its four request paths (web preview task, web video  *)
(* task, desktop preview worker, desktop video worker), its progress       *)
(* reports, and the web server's table of video tasks.                     *)
(*                                                                         *)
(* Time is counted in ticks of 0.05 s (20 ticks per second), so that the   *)
(* program's 0.5 s fade is 10 ticks and its 0.35 s scroll transition is 7. *)
(* Animation names are the catalog keys of src/animations.py:329-348,      *)
(* written in ASCII:                                                       *)
(*   "static_blur", "gradient_wave", "wave_blur"  (BACKGROUND_ANIMATIONS)  *)
(*   "fade_slide", "scroll_list"                  (TEXT_ANIMATIONS)        *)
(*   "static_cover", "vinyl_record"               (COVER_ANIMATIONS)       *)
(* A lyric entry is the Python tuple (start, primary, secondary); a line   *)
(* of the timeline is (start, end, primary, secondary).  Python's 0-based  *)
(* index j is the TLA+ index j + 1.                                        *)
(***************************************************************************)
EXTENDS Integers, Sequences, FiniteSets, TLC

VARIABLES
    path,              \* which request path runs the driver
    background_anim,   \* params.background_anim
    text_anim,         \* params.text_anim
    cover_anim,        \* params.cover_anim
    background_path,   \* params.background_path
    lrc_data,          \* the parser's output for params.lrc_path
    audio_duration,    \* what the duration probe would print for the audio
    duration,          \* params.duration
    preview_time,      \* params.preview_time
    has_song_info,     \* params.song_title or params.song_artist is set
    pc,                \* position of the request
    lyrics_with_ends,  \* _build_filter_complex: lyrics_with_ends
    visible_lyrics,    \* _build_filter_complex: visible_lyrics
    drawtext_filters,  \* the text fragment: its drawtext filters, in order
    command_inputs,    \* _process_media: command_inputs
    audio_input_idx,   \* _process_media: audio_input_idx
    command_maps,      \* _process_media: the streams the command maps (-map)
    filters,           \* _build_filter_complex: filters, the composed graph
    returncode,        \* process.returncode of the rendering process
    output_file,       \* state of the expected output file
    outcome,           \* what the request path reported to its caller
    status,            \* tasks[task_id]["status"] of a web task
    error,             \* the failure the request path caught, "none" if none
    probe_started,     \* the duration probe process has been run
    lrc_parsed,        \* _process_media has read and parsed params.lrc_path
    temp_filter_file,  \* the filter script file: "none", "exists", "removed"
    ffmpeg_started,    \* the rendering process has been started
    stdout_lines,      \* how many lines the rendering process prints
    lines_read,        \* how many of them it has printed so far
    messages,          \* every message handed to the logger, in order
    logs,              \* the log the request exposes
    time_markers,      \* the time marker of each line the process prints
    last_percent,      \* the logger's _last_percent
    task_progress,     \* tasks[task_id]["progress"] of a web task
    progress_emitted,  \* the values emitted to a desktop worker's progress signal
    result,            \* tasks[task_id]["result"] of a web task
    tasks,             \* the web server's video tasks, by task id
    output_dir,        \* the output directory: which task wrote each file last
    raw_text,          \* a lyric text, as a sequence of characters
    cleaned_text,      \* _clean_text(raw_text)
    lrc_file           \* the lines of a lyric file

vars == <<path, background_anim, text_anim, cover_anim, background_path,
          lrc_data, audio_duration, duration, preview_time, has_song_info, pc,
          lyrics_with_ends, visible_lyrics, drawtext_filters, command_inputs,
          audio_input_idx, command_maps, filters, returncode, output_file,
          outcome, status, error, probe_started, lrc_parsed, temp_filter_file,
          ffmpeg_started, stdout_lines, lines_read, messages, logs,
          time_markers, last_percent, task_progress, progress_emitted, result,
          tasks, output_dir, raw_text, cleaned_text, lrc_file>>

\* The variables only the render driver writes.
DriverVars == <<error, probe_started, lrc_parsed, temp_filter_file,
                ffmpeg_started, stdout_lines, lines_read, messages, logs,
                time_markers, last_percent, task_progress, progress_emitted,
                result>>

\* The variables of the web server's table of video tasks.
TaskVars == <<tasks, output_dir>>

\* The variables of the text cleaner and of the lyric-file parser.
PureVars == <<raw_text, cleaned_text, lrc_file>>

NoPureInput ==
    /\ raw_text = <<>>
    /\ cleaned_text = <<>>
    /\ lrc_file = <<>>

\* create_task: "progress": 0, "result": None; a logger starts with
\* _last_percent = -1.
NoProgressYet ==
    /\ last_percent = -1
    /\ task_progress = 0
    /\ progress_emitted = <<>>
    /\ result = "none"

NoTasks ==
    /\ tasks = <<>>
    /\ output_dir = {}

(***************************************************************************)
(* Bounds of the model.                                                    *)
(***************************************************************************)
MaxLines == 3
MaxLongLines == 20
MaxTime == 40
MaxStdoutLines == 100
MaxTextLen == 3
MaxFileLines == 3

(***************************************************************************)
(* Program constants.                                                      *)
(***************************************************************************)
FADE_DURATION == 10
window_size == 7
FPS == 60
H == 1080
TRANSITION_DURATION == 7

Max(a, b) == IF a >= b THEN a ELSE b
Min(a, b) == IF a <= b THEN a ELSE b

(***************************************************************************)
(* Inputs.                                                                 *)
(***************************************************************************)
StartTimes == {0, 4, 12, 24, 36}
Times == 0..MaxTime
Durations == {d \in Times : d % 4 = 0}
PreviewTimes == {p \in Times : p % 2 = 0}

PrimaryText(i) == <<"A", "B", "C", "D">>[((i - 1) % 4) + 1]
SecondaryText(i) == <<"a", "", "c">>[((i - 1) % 3) + 1]

RECURSIVE SortedStarts(_)
SortedStarts(S) ==
    IF S = {} THEN <<>>
    ELSE LET m == CHOOSE x \in S : \A y \in S : x <= y
         IN <<m>> \o SortedStarts(S \ {m})

\* The parser's output for a set of distinct timestamps: sorted by start.
EntriesOf(starts) ==
    [i \in 1..Len(starts) |-> <<starts[i], PrimaryText(i), SecondaryText(i)>>]

ShortLrcData ==
    {EntriesOf(SortedStarts(S)) :
        S \in {T \in SUBSET StartTimes : Cardinality(T) \in 1..MaxLines}}

\* Long lyric files: n lines, one every 2 ticks.
LongLrcData ==
    {EntriesOf([i \in 1..n |-> 2 * (i - 1)]) : n \in 1..MaxLongLines}

(***************************************************************************)
(* Lyric timeline builder.                                                 *)
(***************************************************************************)
LyricsWithEnds_own_start(data, total) ==
    [i \in 1..Len(data) |->
        <<data[i][1],
          IF i + 1 <= Len(data) THEN data[i][1] ELSE total,
          data[i][2],
          data[i][3]>>]

LyricsWithEnds_early_total(data, total) ==
    [i \in 1..Len(data) |->
        <<data[i][1],
          IF i + 2 <= Len(data) THEN data[i + 1][1] ELSE total,
          data[i][2],
          data[i][3]>>]

\* [(start, lrc_data[i + 1][0] if i + 1 < len(lrc_data) else params.duration,
\*   primary, secondary) for i, (start, primary, secondary) in enumerate(lrc_data)]
LyricsWithEnds(data, total) ==
    [i \in 1..Len(data) |->
        <<data[i][1],
          IF i + 1 <= Len(data) THEN data[i + 1][1] ELSE total,
          data[i][2],
          data[i][3]>>]

(***************************************************************************)
(* Visible-window selector.                                                *)
(***************************************************************************)
IsPreview(p) == p \in {"web_preview", "desktop_preview"}

\* next((i for i, (start, end, _, _) in enumerate(...) if start <= t < end), -1)
current_lyric_index(lyrics, t) ==
    LET hits == {i \in 0..(Len(lyrics) - 1) :
                    lyrics[i + 1][1] <= t /\ t < lyrics[i + 1][2]}
    IN IF hits = {} THEN -1
       ELSE CHOOSE i \in hits : \A k \in hits : i <= k

_get_visible_lyrics_no_plus_one(lyrics, anim, t, is_preview) ==
    IF ~is_preview THEN lyrics
    ELSE LET c == current_lyric_index(lyrics, t)
         IN IF c = -1 THEN <<>>
            ELSE IF anim = "fade_slide" THEN <<lyrics[c + 1]>>
            ELSE IF anim = "scroll_list"
                 THEN SubSeq(lyrics, Max(0, c - window_size) + 1,
                             Min(Len(lyrics), c + window_size))
            ELSE lyrics

_get_visible_lyrics_always_window(lyrics, anim, t, is_preview) ==
    LET c == current_lyric_index(lyrics, t)
    IN IF c = -1 THEN <<>>
       ELSE IF anim = "fade_slide" THEN <<lyrics[c + 1]>>
       ELSE IF anim = "scroll_list"
            THEN SubSeq(lyrics, Max(0, c - window_size) + 1,
                        Min(Len(lyrics), c + window_size + 1))
       ELSE lyrics

_get_visible_lyrics_from_current(lyrics, anim, t, is_preview) ==
    IF ~is_preview THEN lyrics
    ELSE LET c == current_lyric_index(lyrics, t)
         IN IF c = -1 THEN <<>>
            ELSE IF anim = "fade_slide" THEN <<lyrics[c + 1]>>
            ELSE IF anim = "scroll_list"
                 THEN SubSeq(lyrics, c + 1, Min(Len(lyrics), c + window_size + 1))
            ELSE lyrics

\* lyrics[start_idx:end_idx] is SubSeq(lyrics, start_idx + 1, end_idx).
_get_visible_lyrics(lyrics, anim, t, is_preview) ==
    IF ~is_preview THEN lyrics
    ELSE LET c == current_lyric_index(lyrics, t)
         IN IF c = -1 THEN <<>>
            ELSE IF anim = "fade_slide" THEN <<lyrics[c + 1]>>
            ELSE IF anim = "scroll_list"
                 THEN SubSeq(lyrics, Max(0, c - window_size) + 1,
                             Min(Len(lyrics), c + window_size + 1))
            ELSE lyrics

(***************************************************************************)
(* Text animations.  A drawtext filter is kept as the options that depend  *)
(* on time: the line it draws (i, 0-based, in the list it was generated    *)
(* from), that line's start and end as written into its expressions, the   *)
(* tier and the style.                                                     *)
(***************************************************************************)
Drawtext(anim, i, line, tier, style) ==
    [anim |-> anim, i |-> i, start |-> line[1], end |-> line[2],
     tier |-> tier, style |-> style]

slide_and_fade_line(i, line) ==
    (IF line[3] # ""
        THEN <<Drawtext("fade_slide", i, line, "primary", "plain")>>
        ELSE <<>>)
    \o (IF line[4] # ""
        THEN <<Drawtext("fade_slide", i, line, "secondary", "plain")>>
        ELSE <<>>)

list_line(i, line) ==
    (IF line[3] # ""
        THEN <<Drawtext("scroll_list", i, line, "primary", "highlight"),
               Drawtext("scroll_list", i, line, "primary", "normal")>>
        ELSE <<>>)
    \o (IF line[4] # ""
        THEN <<Drawtext("scroll_list", i, line, "secondary", "plain")>>
        ELSE <<>>)

RECURSIVE slide_and_fade_from(_, _)
slide_and_fade_from(lyrics, i) ==
    IF i >= Len(lyrics) THEN <<>>
    ELSE slide_and_fade_line(i, lyrics[i + 1]) \o slide_and_fade_from(lyrics, i + 1)

RECURSIVE list_from(_, _)
list_from(lyrics, i) ==
    IF i >= Len(lyrics) THEN <<>>
    ELSE list_line(i, lyrics[i + 1]) \o list_from(lyrics, i + 1)

get_slide_and_fade_text_animation(lyrics) == slide_and_fade_from(lyrics, 0)

get_list_text_animation(lyrics) ==
    IF lyrics = <<>> THEN <<>> ELSE list_from(lyrics, 0)

\* TEXT_ANIMATIONS[params.text_anim](lyrics_with_ends=visible_lyrics, ...),
\* called only when visible_lyrics is not empty.
TextFilters(anim, lyrics) ==
    IF lyrics = <<>> THEN <<>>
    ELSE IF anim = "fade_slide" THEN get_slide_and_fade_text_animation(lyrics)
    ELSE get_list_text_animation(lyrics)

(***************************************************************************)
(* The generated expressions, evaluated at frame time t as the toolchain's *)
(* expression evaluator does: lt and gt are strict, between(x, lo, hi) is  *)
(* lo <= x <= hi.                                                          *)
(***************************************************************************)
between(x, lo, hi) == lo <= x /\ x <= hi

\* enable='between(t,{start},{end})'
enable_expr(start, end, t) == between(t, start, end)

alpha_expr_no_fade_out(start, end, t) ==
    IF t < start + FADE_DURATION THEN t - start ELSE FADE_DURATION

alpha_expr_wrong_guard(start, end, t) ==
    IF t < end + FADE_DURATION THEN t - start
    ELSE IF t > end - FADE_DURATION THEN end - t
    ELSE FADE_DURATION

\* alpha='if(lt(t,s+F),(t-s)/F,if(gt(t,e-F),(e-t)/F,1))', times FADE_DURATION:
\* the value is the numerator of the opacity over FADE_DURATION, so opacity 1
\* is FADE_DURATION and opacity 0 is 0.
alpha_expr(start, end, t) ==
    IF t < start + FADE_DURATION THEN t - start
    ELSE IF t > end - FADE_DURATION THEN end - t
    ELSE FADE_DURATION

\* The nested chain built from the last line backwards:
\* level j is if(lt(t, lyrics[j + 1].start), j, <level j + 1>), the innermost
\* level is the constant len(lyrics) - 1.
RECURSIVE highlight_chain(_, _, _)
highlight_chain(lyrics, j, t) ==
    IF j >= Len(lyrics) - 1 THEN Len(lyrics) - 1
    ELSE IF t < lyrics[j + 2][1] THEN j
    ELSE highlight_chain(lyrics, j + 1, t)

RECURSIVE highlight_chain_own_start(_, _, _)
highlight_chain_own_start(lyrics, j, t) ==
    IF j >= Len(lyrics) - 1 THEN Len(lyrics) - 1
    ELSE IF t < lyrics[j + 1][1] THEN j
    ELSE highlight_chain_own_start(lyrics, j + 1, t)

highlight_idx_expr_own_start(lyrics, t) == highlight_chain_own_start(lyrics, 0, t)

highlight_idx_expr(lyrics, t) == highlight_chain(lyrics, 0, t)

\* enable='eq({i},({highlight_idx_expr}))'
is_highlighted_expr(lyrics, i, t) == i = highlight_idx_expr(lyrics, t)

(***************************************************************************)
(* The scroll offset of the list.  Vertical positions are kept in units of *)
(* 1/2000 pixel: get_target_y is in half pixels (its formula halves H and  *)
(* the line height) and the easing curve is kept in thousandths.           *)
(***************************************************************************)
list_line_height(font_size_primary, font_size_secondary) ==
    font_size_primary + font_size_secondary + 45

\* (H / 2.0) - (list_line_height / 2.0) - (max(0, j) * list_line_height), doubled.
get_target_y(j, line_height) == H - line_height - 2 * Max(0, j) * line_height

\* clip((t - start_j) / TRANSITION_DURATION, 0, 1), as the numerator over
\* TRANSITION_DURATION.
progress(start_j, t) == Max(0, Min(TRANSITION_DURATION, t - start_j))

\* (1-cos(progress*3.14159265))/2 at progress k/7, k = 0..7, in thousandths.
smoothed_progress(k) == <<0, 50, 188, 389, 611, 812, 950, 1000>>[k + 1]

transition_expr_swapped(lyrics, j, t, line_height) ==
    LET prev_target_y == get_target_y(j, line_height)
        target_y_j == get_target_y(j - 1, line_height)
    IN prev_target_y * 1000
       + (target_y_j - prev_target_y) * smoothed_progress(progress(lyrics[j + 1][1], t))

\* prev_target_y + (target_y_j - prev_target_y) * smoothed_progress
transition_expr(lyrics, j, t, line_height) ==
    LET prev_target_y == get_target_y(j - 1, line_height)
        target_y_j == get_target_y(j, line_height)
    IN prev_target_y * 1000
       + (target_y_j - prev_target_y) * smoothed_progress(progress(lyrics[j + 1][1], t))

RECURSIVE scroll_chain_first_started(_, _, _, _)
scroll_chain_first_started(lyrics, j, t, line_height) ==
    IF j >= Len(lyrics) THEN get_target_y(0, line_height) * 1000
    ELSE IF t >= lyrics[j + 1][1]
        THEN IF t < lyrics[j + 1][1] + TRANSITION_DURATION
                THEN transition_expr(lyrics, j, t, line_height)
                ELSE get_target_y(j, line_height) * 1000
    ELSE scroll_chain_first_started(lyrics, j + 1, t, line_height)

\* The chain after the loop has wrapped lines 0..j:
\* if(gte(t,start_j), if(lt(t,start_j+T), transition_expr, target_y_j), <chain j-1>),
\* and get_target_y(0) before the loop.
RECURSIVE scroll_chain(_, _, _, _)
scroll_chain(lyrics, j, t, line_height) ==
    IF j < 0 THEN get_target_y(0, line_height) * 1000
    ELSE IF t >= lyrics[j + 1][1]
        THEN IF t < lyrics[j + 1][1] + TRANSITION_DURATION
                THEN transition_expr(lyrics, j, t, line_height)
                ELSE get_target_y(j, line_height) * 1000
    ELSE scroll_chain(lyrics, j - 1, t, line_height)

scroll_y_expr_first_started(lyrics, t, line_height) ==
    scroll_chain_first_started(lyrics, 0, t, line_height)

scroll_y_expr(lyrics, t, line_height) ==
    scroll_chain(lyrics, Len(lyrics) - 1, t, line_height)

\* y_pos_primary_expr = (scroll_y_expr) + (i * list_line_height)
y_pos_primary_expr(lyrics, i, t, line_height) ==
    scroll_y_expr(lyrics, t, line_height) + 2000 * i * line_height

(***************************************************************************)
(* The pure functions applied to inputs drawn from the bounded sets: the   *)
(* timeline builder, the visible-window selector, the text animation.      *)
(***************************************************************************)
TextAnims == {"fade_slide", "scroll_list"}

NoRequestYet ==
    /\ command_inputs = <<>>
    /\ audio_input_idx = -1
    /\ command_maps = <<>>
    /\ filters = <<>>
    /\ returncode = -1
    /\ output_file = "missing"
    /\ outcome = "none"
    /\ status = "none"
    /\ error = "none"
    /\ probe_started = FALSE
    /\ lrc_parsed = FALSE
    /\ temp_filter_file = "none"
    /\ ffmpeg_started = FALSE
    /\ stdout_lines = 0
    /\ lines_read = 0
    /\ messages = <<>>
    /\ logs = <<>>
    /\ time_markers = <<>>
    /\ NoProgressYet
    /\ NoTasks
    /\ NoPureInput

InitTimeline ==
    /\ path \in {"web_preview", "web_video"}
    /\ background_anim = "static_blur"
    /\ cover_anim = "static_cover"
    /\ background_path = "cover.png"
    /\ text_anim \in TextAnims
    /\ lrc_data \in ShortLrcData \cup LongLrcData
    /\ duration \in Durations
    /\ audio_duration = duration
    /\ preview_time \in PreviewTimes
    /\ has_song_info = FALSE
    /\ pc = "input"
    /\ lyrics_with_ends = <<>>
    /\ visible_lyrics = <<>>
    /\ drawtext_filters = <<>>
    /\ NoRequestYet

ApplyTimeline ==
    /\ pc = "input"
    /\ lyrics_with_ends' = LyricsWithEnds(lrc_data, duration)
    /\ pc' = "timeline"
    /\ UNCHANGED <<path, background_anim, text_anim, cover_anim, background_path,
                   lrc_data, audio_duration, duration, preview_time, has_song_info,
                   visible_lyrics, drawtext_filters, command_inputs,
                   audio_input_idx, command_maps, filters, returncode,
                   output_file, outcome, status, DriverVars, TaskVars, PureVars>>

ApplyVisible ==
    /\ pc = "timeline"
    /\ visible_lyrics' = _get_visible_lyrics(lyrics_with_ends, text_anim,
                                             preview_time, IsPreview(path))
    /\ pc' = "visible"
    /\ UNCHANGED <<path, background_anim, text_anim, cover_anim, background_path,
                   lrc_data, audio_duration, duration, preview_time, has_song_info,
                   lyrics_with_ends, drawtext_filters, command_inputs,
                   audio_input_idx, command_maps, filters, returncode,
                   output_file, outcome, status, DriverVars, TaskVars, PureVars>>

ApplyTextAnimation ==
    /\ pc = "visible"
    /\ drawtext_filters' = TextFilters(text_anim, visible_lyrics)
    /\ pc' = "text"
    /\ UNCHANGED <<path, background_anim, text_anim, cover_anim, background_path,
                   lrc_data, audio_duration, duration, preview_time, has_song_info,
                   lyrics_with_ends, visible_lyrics, command_inputs,
                   audio_input_idx, command_maps, filters, returncode,
                   output_file, outcome, status, DriverVars, TaskVars, PureVars>>

NextTimeline == ApplyTimeline \/ ApplyVisible \/ ApplyTextAnimation

SpecTimeline == InitTimeline /\ [][NextTimeline]_vars

\* The same functions on the inputs of the scrolling list: every short
\* lyric list and the longest one, each preview time, one duration.
InitScroll ==
    /\ path \in {"web_preview", "web_video"}
    /\ background_anim = "static_blur"
    /\ cover_anim = "static_cover"
    /\ background_path = "cover.png"
    /\ text_anim = "scroll_list"
    /\ lrc_data \in ShortLrcData
                    \cup {EntriesOf([i \in 1..MaxLongLines |-> 2 * (i - 1)])}
    /\ duration = MaxTime
    /\ audio_duration = duration
    /\ preview_time \in PreviewTimes
    /\ has_song_info = FALSE
    /\ pc = "input"
    /\ lyrics_with_ends = <<>>
    /\ visible_lyrics = <<>>
    /\ drawtext_filters = <<>>
    /\ NoRequestYet

SpecScroll == InitScroll /\ [][NextTimeline]_vars

(***************************************************************************)
(* The text cleaner.  A text is a sequence of characters; "rsquo",         *)
(* "fwcolon" and "fwpercent" stand for the right single quotation mark and *)
(* the fullwidth colon and percent sign the cleaner writes.                *)
(***************************************************************************)
Chars == {"a", "'", ":", "%", ",", "\\"}
Texts == UNION {[1..n -> Chars] : n \in 0..MaxTextLen}

\* str.replace(old, new) for a one-character old.
RECURSIVE replace(_, _, _)
replace(text, old, new) ==
    IF text = <<>> THEN <<>>
    ELSE (IF Head(text) = old THEN new ELSE <<Head(text)>>)
         \o replace(Tail(text), old, new)

\* text.replace("'", "’").replace(":", "：").replace("%", "％").replace(',', r'\,')
_clean_text(text) ==
    replace(replace(replace(replace(text, "'", <<"rsquo">>),
                            ":", <<"fwcolon">>),
                    "%", <<"fwpercent">>),
            ",", <<"\\", ",">>)

\* No request and no timeline: what the specifications of the text cleaner
\* and of the parser leave untouched.
NothingElse ==
    /\ path = "web_video"
    /\ background_anim = "static_blur"
    /\ cover_anim = "static_cover"
    /\ text_anim = "fade_slide"
    /\ background_path = "cover.png"
    /\ audio_duration = 0
    /\ duration = 0
    /\ preview_time = 0
    /\ has_song_info = FALSE
    /\ lyrics_with_ends = <<>>
    /\ visible_lyrics = <<>>
    /\ drawtext_filters = <<>>
    /\ command_inputs = <<>>
    /\ audio_input_idx = -1
    /\ command_maps = <<>>
    /\ filters = <<>>
    /\ returncode = -1
    /\ output_file = "missing"
    /\ outcome = "none"
    /\ status = "none"
    /\ error = "none"
    /\ probe_started = FALSE
    /\ lrc_parsed = FALSE
    /\ temp_filter_file = "none"
    /\ ffmpeg_started = FALSE
    /\ stdout_lines = 0
    /\ lines_read = 0
    /\ messages = <<>>
    /\ logs = <<>>
    /\ time_markers = <<>>
    /\ NoProgressYet

InitText ==
    /\ raw_text \in Texts
    /\ cleaned_text = <<>>
    /\ lrc_file = <<>>
    /\ lrc_data = <<>>
    /\ pc = "text_input"
    /\ NoTasks
    /\ NothingElse

ApplyCleanText ==
    /\ pc = "text_input"
    /\ cleaned_text' = _clean_text(raw_text)
    /\ pc' = "text_cleaned"
    /\ UNCHANGED <<path, background_anim, text_anim, cover_anim, background_path,
                   lrc_data, audio_duration, duration, preview_time, has_song_info,
                   lyrics_with_ends, visible_lyrics, drawtext_filters,
                   command_inputs, audio_input_idx, command_maps, filters,
                   returncode, output_file, outcome, status, DriverVars, TaskVars,
                   raw_text, lrc_file>>

NextText == ApplyCleanText

SpecText == InitText /\ [][NextText]_vars

\* How many backslashes stand immediately before position k of a text.
BackslashesBefore(text, k) ==
    Cardinality({j \in 1..(k - 1) : \A i \in j..(k - 1) : text[i] = "\\"})

\* C15: the cleaned text holds no quote, no colon and no percent sign, every
\* comma in it is preceded by an odd number of backslashes, and a text with
\* none of the four special characters is returned unchanged.
C15_CleanTextEscapes ==
    pc = "text_cleaned" =>
        /\ \A k \in 1..Len(cleaned_text) : cleaned_text[k] \notin {"'", ":", "%"}
        /\ \A k \in 1..Len(cleaned_text) :
                cleaned_text[k] = "," => BackslashesBefore(cleaned_text, k) % 2 = 1
        /\ (\A k \in 1..Len(raw_text) : raw_text[k] \notin {"'", ":", "%", ","})
                => cleaned_text = raw_text

(***************************************************************************)
(* The lyric-file parser.  A line of the file is kept as what the two      *)
(* regular expressions find in it: a metadata tag ("meta"), a timestamp    *)
(* ("timed", with the start time it denotes and the characters after it),  *)
(* or neither ("plain").                                                   *)
(***************************************************************************)
Txt_a == <<"a">>
Txt_a_spaced == <<" ", "a", " ">>
Txt_ab == <<"a", "/", "b">>
Txt_ab_spaced == <<" ", "a", " ", "/", " ", "b", " ">>
Txt_abc == <<"a", "/", "b", "/", "c">>
Txt_only_b == <<"/", "b">>
Txt_a_only == <<"a", "/">>
LineTexts ==
    {<<>>, Txt_a, Txt_a_spaced, Txt_ab, Txt_ab_spaced, Txt_abc, Txt_only_b,
     Txt_a_only}
FileTimes == {0, 4}
FileLines ==
    {[kind |-> "timed", time |-> t, text |-> x] : t \in FileTimes, x \in LineTexts}
    \cup {[kind |-> k, time |-> 0, text |-> Txt_a] : k \in {"meta", "plain"}}
LrcFiles == UNION {[1..n -> FileLines] : n \in 0..MaxFileLines}

RECURSIVE lstrip(_)
lstrip(text) ==
    IF text # <<>> /\ Head(text) = " " THEN lstrip(Tail(text)) ELSE text

RECURSIVE rstrip(_)
rstrip(text) ==
    IF text # <<>> /\ text[Len(text)] = " "
        THEN rstrip(SubSeq(text, 1, Len(text) - 1)) ELSE text

\* str.strip()
strip(text) == rstrip(lstrip(text))

split_last(text, sep) ==
    LET hits == {k \in 1..Len(text) : text[k] = sep}
    IN IF hits = {} THEN <<text>>
       ELSE LET k == CHOOSE x \in hits : \A y \in hits : y <= x
            IN <<SubSeq(text, 1, k - 1), SubSeq(text, k + 1, Len(text))>>

\* str.split(sep, 1)
split(text, sep) ==
    LET hits == {k \in 1..Len(text) : text[k] = sep}
    IN IF hits = {} THEN <<text>>
       ELSE LET k == CHOOSE x \in hits : \A y \in hits : x <= y
            IN <<SubSeq(text, 1, k - 1), SubSeq(text, k + 1, Len(text))>>

\* The loop over the lines: a metadata line is skipped, a timed line with
\* text after its timestamp is appended to timed_lyrics[start_time].
RECURSIVE timed_lyrics(_, _)
timed_lyrics(lines, timed) ==
    IF lines = <<>> THEN timed
    ELSE LET line == Head(lines)
             lyric_text == strip(line.text)
         IN timed_lyrics(Tail(lines),
                IF line.kind = "timed" /\ lyric_text # <<>>
                    THEN IF line.time \in DOMAIN timed
                            THEN [timed EXCEPT ![line.time] = Append(@, lyric_text)]
                            ELSE timed @@ (line.time :> <<lyric_text>>)
                    ELSE timed)

\* (start_time, primary_text, secondary_text) for the texts of one timestamp.
lyric_entry(start_time, texts) ==
    IF Len(texts) >= 2
        THEN <<start_time, strip(texts[1]), strip(texts[2])>>
        ELSE LET parts == split(texts[1], "/")
             IN <<start_time, strip(parts[1]),
                  IF Len(parts) > 1 THEN strip(parts[2]) ELSE <<>> >>

HasPrimary_always(entry) == TRUE
HasPrimary(entry) == entry[2] # <<>>

parse_bilingual_lrc_with_metadata(lines) ==
    LET timed == timed_lyrics(lines, <<>>)
        starts == SortedStarts(DOMAIN timed)
    IN SelectSeq([i \in 1..Len(starts) |-> lyric_entry(starts[i], timed[starts[i]])],
                 HasPrimary)

InitParser ==
    /\ lrc_file \in LrcFiles
    /\ lrc_data = <<>>
    /\ raw_text = <<>>
    /\ cleaned_text = <<>>
    /\ pc = "file"
    /\ NoTasks
    /\ NothingElse

ParseFile ==
    /\ pc = "file"
    /\ lrc_data' = parse_bilingual_lrc_with_metadata(lrc_file)
    /\ pc' = "parsed"
    /\ UNCHANGED <<path, background_anim, text_anim, cover_anim, background_path,
                   audio_duration, duration, preview_time, has_song_info,
                   lyrics_with_ends, visible_lyrics, drawtext_filters,
                   command_inputs, audio_input_idx, command_maps, filters,
                   returncode, output_file, outcome, status, DriverVars, TaskVars, PureVars>>

NextParser == ParseFile

SpecParser == InitParser /\ [][NextParser]_vars

\* A text without the spaces at its two ends.
Trimmed(text) ==
    LET solid == {k \in 1..Len(text) : text[k] # " "}
    IN IF solid = {} THEN <<>>
       ELSE SubSeq(text, CHOOSE x \in solid : \A y \in solid : x <= y,
                         CHOOSE x \in solid : \A y \in solid : y <= x)

\* The texts of the file's lyric lines at one timestamp, trimmed, in file order.
IsLyricLineAt(line, t) ==
    line.kind = "timed" /\ line.time = t /\ Trimmed(line.text) # <<>>
LyricLinesAt(t) ==
    LET at == SelectSeq(lrc_file, LAMBDA line : IsLyricLineAt(line, t))
    IN [k \in 1..Len(at) |-> Trimmed(at[k].text)]

EntriesAt(t) == SelectSeq(lrc_data, LAMBDA entry : entry[1] = t)

FirstSlash(text) ==
    CHOOSE k \in 1..Len(text) :
        text[k] = "/" /\ \A j \in 1..(k - 1) : text[j] # "/"

\* C19: two lyric lines with the same timestamp are paired, the first as
\* primary and the second as secondary; a single line with the separator "/"
\* is split at the first separator into the trimmed text before it (primary)
\* and the trimmed text after it (secondary), and yields no entry when the
\* text before it is empty; a single line without separator has an empty
\* secondary.
C19_ParserPairsBothDialects ==
    pc = "parsed" =>
        \A t \in FileTimes :
            LET texts == LyricLinesAt(t)
                only == texts[1]
                slashed == \E k \in 1..Len(only) : only[k] = "/"
                before == Trimmed(SubSeq(only, 1, FirstSlash(only) - 1))
                after == Trimmed(SubSeq(only, FirstSlash(only) + 1, Len(only)))
            IN /\ Len(texts) = 0 => EntriesAt(t) = <<>>
               /\ Len(texts) >= 2 => EntriesAt(t) = << <<t, texts[1], texts[2]>> >>
               /\ (Len(texts) = 1 /\ ~slashed) => EntriesAt(t) = << <<t, only, <<>> >> >>
               /\ (Len(texts) = 1 /\ slashed /\ before # <<>>) =>
                        EntriesAt(t) = << <<t, before, after>> >>
               /\ (Len(texts) = 1 /\ slashed /\ before = <<>>) =>
                        EntriesAt(t) = <<>>

C19_Witness ==
    /\ pc = "parsed"
    /\ Len(lrc_file) = 3
    /\ lrc_file[1] = [kind |-> "timed", time |-> 4, text |-> Txt_abc]
    /\ lrc_file[2] = [kind |-> "timed", time |-> 0, text |-> Txt_ab]
    /\ lrc_file[3] = [kind |-> "timed", time |-> 0, text |-> Txt_a_spaced]
    /\ lrc_data = << <<0, Txt_ab, Txt_a>>, <<4, <<"a">>, <<"b", "/", "c">> >> >>

\* C30: for every lyric file the entries the parser returns have strictly
\* increasing start times and a non-empty primary text.
C30_EntriesIncreasingWithPrimary ==
    pc = "parsed" =>
        /\ \A k \in 1..Len(lrc_data) : lrc_data[k][2] # <<>>
        /\ \A k \in 1..(Len(lrc_data) - 1) : lrc_data[k][1] < lrc_data[k + 1][1]

\* The later timestamp comes first in the file, and a third line has nothing
\* before its separator.
C30_Witness ==
    /\ pc = "parsed"
    /\ Len(lrc_file) = 3
    /\ lrc_file[1] = [kind |-> "timed", time |-> 4, text |-> Txt_a]
    /\ lrc_file[2] = [kind |-> "timed", time |-> 0, text |-> Txt_ab_spaced]
    /\ lrc_file[3] = [kind |-> "timed", time |-> 4, text |-> Txt_only_b]
    /\ Len(lrc_data) = 2
    /\ lrc_data[1][1] = 0
    /\ lrc_data[2][1] = 4

(***************************************************************************)
(* Properties of the timeline, the selector and the text expressions.      *)
(***************************************************************************)
TimelineBuilt == pc \in {"timeline", "visible", "text"}
VisibleSelected == pc \in {"visible", "text"}
FadeFragment == pc = "text" /\ text_anim = "fade_slide"
ListFragment == pc = "text" /\ text_anim = "scroll_list" /\ visible_lyrics # <<>>

\* C3: the timeline has the entries of the lyric list, in order, with start and
\* both texts unchanged; each line ends where the next starts and the last line
\* ends at the total duration, also when that is at or before its start.
C3_TimelineContiguous ==
    TimelineBuilt =>
        LET n == Len(lrc_data)
        IN /\ Len(lyrics_with_ends) = n
           /\ \A i \in 1..n :
                /\ lyrics_with_ends[i][1] = lrc_data[i][1]
                /\ lyrics_with_ends[i][3] = lrc_data[i][2]
                /\ lyrics_with_ends[i][4] = lrc_data[i][3]
           /\ \A i \in 1..(n - 1) :
                lyrics_with_ends[i][2] = lyrics_with_ends[i + 1][1]
           /\ lyrics_with_ends[n][2] = duration

C3_Witness ==
    /\ pc = "timeline"
    /\ Len(lrc_data) = 3
    /\ duration < lrc_data[3][1]
    /\ lyrics_with_ends[3][2] = duration
    /\ lyrics_with_ends[2][2] = lrc_data[3][1]

\* The greatest 0-based index of a line that has started by t.
GreatestStarted(lyrics, t) ==
    CHOOSE i \in 0..(Len(lyrics) - 1) :
        /\ lyrics[i + 1][1] <= t
        /\ \A k \in 0..(Len(lyrics) - 1) : lyrics[k + 1][1] <= t => k <= i

\* C4: in the scrolling list, at every time t the current-index chain gives the
\* greatest index whose start is <= t, and index 0 before the first start.
C4_CurrentIndex ==
    ListFragment =>
        \A t \in Times :
            highlight_idx_expr(visible_lyrics, t) =
                IF t >= visible_lyrics[1][1]
                    THEN GreatestStarted(visible_lyrics, t)
                    ELSE 0

C4_Witness ==
    /\ ListFragment
    /\ Len(visible_lyrics) = 3
    /\ drawtext_filters # <<>>
    /\ visible_lyrics[1][1] > 0
    /\ \E t \in Times : highlight_idx_expr(visible_lyrics, t) = 1
    /\ \E t \in Times : highlight_idx_expr(visible_lyrics, t) = 2
    /\ highlight_idx_expr(visible_lyrics, 0) = 0

\* The 0-based indices of the lines whose interval [start, end) holds t.
Containing(lyrics, t) ==
    {c \in 0..(Len(lyrics) - 1) : lyrics[c + 1][1] <= t /\ t < lyrics[c + 1][2]}

\* C5: in preview mode the selector returns the lines max(0, c - r) ..
\* min(n - 1, c + r) around the line c that holds the preview timestamp, r = 0
\* for fade+slide and r = 7 for the scrolling list, and the empty list when no
\* line holds the timestamp.
C5_PreviewWindow ==
    (VisibleSelected /\ IsPreview(path)) =>
        LET n == Len(lyrics_with_ends)
            r == IF text_anim = "fade_slide" THEN 0 ELSE 7
        IN /\ \A c \in Containing(lyrics_with_ends, preview_time) :
                LET lo == Max(0, c - r)
                    hi == Min(n - 1, c + r)
                IN visible_lyrics =
                       [k \in 1..(hi - lo + 1) |-> lyrics_with_ends[lo + k]]
           /\ Containing(lyrics_with_ends, preview_time) = {} =>
                visible_lyrics = <<>>

C5_Witness ==
    /\ pc = "visible"
    /\ IsPreview(path)
    /\ text_anim = "scroll_list"
    /\ Len(lyrics_with_ends) = 20
    /\ Containing(lyrics_with_ends, preview_time) = {10}
    /\ Len(visible_lyrics) = 15
    /\ visible_lyrics[1] = lyrics_with_ends[4]
    /\ visible_lyrics[15] = lyrics_with_ends[18]

\* C6: a full render selects the whole timeline, whatever the text animation
\* and the preview timestamp, and its text fragment draws every line.
C6_FullRenderAllLines ==
    /\ (VisibleSelected /\ ~IsPreview(path)) => visible_lyrics = lyrics_with_ends
    /\ (pc = "text" /\ ~IsPreview(path)) =>
            \A i \in 0..(Len(lyrics_with_ends) - 1) :
                \E k \in 1..Len(drawtext_filters) :
                    /\ drawtext_filters[k].i = i
                    /\ drawtext_filters[k].start = lyrics_with_ends[i + 1][1]
                    /\ drawtext_filters[k].end = lyrics_with_ends[i + 1][2]

C6_Witness ==
    /\ pc = "text"
    /\ ~IsPreview(path)
    /\ text_anim = "scroll_list"
    /\ Len(lyrics_with_ends) = 20
    /\ Containing(lyrics_with_ends, preview_time) = {10}
    /\ Len(visible_lyrics) = 20

\* C7: fade+slide opacity stays within [0, 1] at every t in [start, end] of
\* every line with end >= start, however short the line.
C7_OpacityInRange ==
    FadeFragment =>
        \A k \in 1..Len(drawtext_filters) :
            LET f == drawtext_filters[k]
            IN f.end >= f.start =>
                \A t \in Times :
                    (f.start <= t /\ t <= f.end) =>
                        /\ 0 <= alpha_expr(f.start, f.end, t)
                        /\ alpha_expr(f.start, f.end, t) <= FADE_DURATION

\* A 0.6 s line at its midpoint, and a line shorter than the fade.
C7_Witness ==
    /\ FadeFragment
    /\ \E k \in 1..Len(drawtext_filters) :
            LET f == drawtext_filters[k]
            IN /\ f.end - f.start = 12
               /\ alpha_expr(f.start, f.end, f.start + 6) = 6
    /\ \E k \in 1..Len(drawtext_filters) :
            LET f == drawtext_filters[k]
            IN f.end > f.start /\ f.end - f.start < FADE_DURATION

\* Opacity 0 at start, linear to 1 at start + F, 1 until end - F, linear to 0
\* at end (opacity is counted in units of 1 / FADE_DURATION).
FadeProfile(f) ==
    \A t \in Times :
        (f.start <= t /\ t <= f.end) =>
            /\ t <= f.start + FADE_DURATION =>
                    alpha_expr(f.start, f.end, t) = t - f.start
            /\ (f.start + FADE_DURATION <= t /\ t <= f.end - FADE_DURATION) =>
                    alpha_expr(f.start, f.end, t) = FADE_DURATION
            /\ t >= f.end - FADE_DURATION =>
                    alpha_expr(f.start, f.end, t) = f.end - t

\* C8 as stated: every lyric line follows the fade profile.
C8_EveryLineFadeProfile ==
    FadeFragment =>
        \A k \in 1..Len(drawtext_filters) :
            drawtext_filters[k].end >= drawtext_filters[k].start =>
                FadeProfile(drawtext_filters[k])

\* C8 amended: every lyric line that lasts at least twice the fade duration
\* has opacity 0 at start, linear to 1 at start + F, 1 until end - F, linear to
\* 0 at end.
C8_LongLineFadeProfile ==
    FadeFragment =>
        \A k \in 1..Len(drawtext_filters) :
            drawtext_filters[k].end - drawtext_filters[k].start
                    >= 2 * FADE_DURATION =>
                FadeProfile(drawtext_filters[k])

C8_Witness ==
    /\ FadeFragment
    /\ \E k \in 1..Len(drawtext_filters) :
            LET f == drawtext_filters[k]
            IN /\ f.end - f.start = 24
               /\ alpha_expr(f.start, f.end, f.start) = 0
               /\ alpha_expr(f.start, f.end, f.start + 12) = FADE_DURATION
               /\ alpha_expr(f.start, f.end, f.end - 5) = 5
               /\ alpha_expr(f.start, f.end, f.end) = 0

\* The 0-based lines with a drawtext filter enabled at t.
EnabledLines(t) ==
    {drawtext_filters[k].i : k \in
        {k \in 1..Len(drawtext_filters) :
            enable_expr(drawtext_filters[k].start, drawtext_filters[k].end, t)}}

\* C9: a fade+slide line is enabled at t exactly when start <= t < end, so at
\* most one line is enabled at any time, line boundaries included.
C9_EnabledHalfOpen ==
    FadeFragment =>
        /\ \A k \in 1..Len(drawtext_filters) :
                LET f == drawtext_filters[k]
                IN \A t \in Times :
                        enable_expr(f.start, f.end, t) <=>
                            (f.start <= t /\ t < f.end)
        /\ \A t \in Times : Cardinality(EnabledLines(t)) <= 1

\* C17 as stated: every line of the timeline has start >= 0 and end > start.
C17_EveryLinePositive ==
    TimelineBuilt =>
        \A i \in 1..Len(lyrics_with_ends) :
            /\ lyrics_with_ends[i][1] >= 0
            /\ lyrics_with_ends[i][2] > lyrics_with_ends[i][1]

\* C17 amended: every line has start >= 0; every line but the last has
\* end > start; the last line ends at the probed duration, so its end is
\* after its start exactly when the duration is.
C17_AllButLastPositive ==
    TimelineBuilt =>
        LET n == Len(lyrics_with_ends)
        IN /\ \A i \in 1..n : lyrics_with_ends[i][1] >= 0
           /\ \A i \in 1..(n - 1) :
                lyrics_with_ends[i][2] > lyrics_with_ends[i][1]
           /\ n > 0 =>
                /\ lyrics_with_ends[n][2] = duration
                /\ lyrics_with_ends[n][2] > lyrics_with_ends[n][1]
                        <=> duration > lrc_data[n][1]

C17_Witness ==
    /\ TimelineBuilt
    /\ Len(lyrics_with_ends) = 3
    /\ lyrics_with_ends[1][2] > lyrics_with_ends[1][1]
    /\ lyrics_with_ends[3][1] = 36
    /\ lyrics_with_ends[3][2] = 24

\* The font sizes the list is laid out with.
FontSizes == {<<40, 30>>, <<72, 48>>}
LineHeights == {list_line_height(f[1], f[2]) : f \in FontSizes}

\* A value lies between two others, whichever is the greater.
Within(v, a, b) == Min(a, b) <= v /\ v <= Max(a, b)

\* C18: the transition expression of a line equals the previous line's
\* target offset at progress 0 (up to the line's start) and the line's own
\* target offset at progress 1 (from start + 0.35 s on); in between it moves
\* from the one to the other monotonically and never leaves their range.
C18_TransitionInterpolates ==
    ListFragment =>
        \A lh \in LineHeights : \A j \in 0..(Len(visible_lyrics) - 1) :
            LET start_j == visible_lyrics[j + 1][1]
                prev == get_target_y(j - 1, lh) * 1000
                target == get_target_y(j, lh) * 1000
                v(t) == transition_expr(visible_lyrics, j, t, lh)
            IN /\ \A t \in Times : t <= start_j => v(t) = prev
               /\ \A t \in Times : t >= start_j + TRANSITION_DURATION => v(t) = target
               /\ \A t \in Times : Within(v(t), prev, target)
               /\ \A t \in Times : Within(v(t + 1), v(t), target)
               /\ j = 0 => prev = target
               /\ j > 0 => target = prev - 2000 * lh

C18_Witness ==
    /\ ListFragment
    /\ Len(visible_lyrics) >= 2
    /\ visible_lyrics[2][1] = 4
    /\ \A lh \in LineHeights :
            /\ transition_expr(visible_lyrics, 1, 4, lh) = get_target_y(0, lh) * 1000
            /\ transition_expr(visible_lyrics, 1, 11, lh) = get_target_y(1, lh) * 1000
            /\ transition_expr(visible_lyrics, 1, 7, lh) < get_target_y(0, lh) * 1000
            /\ transition_expr(visible_lyrics, 1, 7, lh) > get_target_y(1, lh) * 1000

\* C20: at every time the scroll-offset chain takes the branch of the line
\* the current-index chain gives: c's transition within 0.35 s of c's start,
\* c's target afterwards, line 0's target before the first start.  So when no
\* transition is in progress the current line's primary y, scroll offset plus
\* c times the line height, is H/2 - line_height/2.
C20_ScrollFollowsCurrentIndex ==
    ListFragment =>
        \A lh \in LineHeights : \A t \in Times :
            LET c == highlight_idx_expr(visible_lyrics, t)
                start_c == visible_lyrics[c + 1][1]
                scroll == scroll_y_expr(visible_lyrics, t, lh)
            IN /\ t < visible_lyrics[1][1] =>
                    /\ c = 0
                    /\ scroll = get_target_y(0, lh) * 1000
               /\ (t >= start_c /\ t < start_c + TRANSITION_DURATION) =>
                    scroll = transition_expr(visible_lyrics, c, t, lh)
               /\ t >= start_c + TRANSITION_DURATION =>
                    scroll = get_target_y(c, lh) * 1000
               /\ (t < visible_lyrics[1][1] \/ t >= start_c + TRANSITION_DURATION) =>
                    y_pos_primary_expr(visible_lyrics, c, t, lh) = (H - lh) * 1000

C20_Witness ==
    /\ ListFragment
    /\ Len(visible_lyrics) = 3
    /\ visible_lyrics[1][1] = 4
    /\ visible_lyrics[2][1] = 12
    /\ highlight_idx_expr(visible_lyrics, 0) = 0
    /\ highlight_idx_expr(visible_lyrics, 20) = 1
    /\ \A lh \in LineHeights :
            /\ scroll_y_expr(visible_lyrics, 20, lh) = get_target_y(1, lh) * 1000
            /\ scroll_y_expr(visible_lyrics, 14, lh)
                    = transition_expr(visible_lyrics, 1, 14, lh)
            /\ y_pos_primary_expr(visible_lyrics, 1, 20, lh) = (H - lh) * 1000

\* The place in the full timeline of the first line of the preview window.
WindowOffset ==
    CHOOSE s \in 0..(Len(lyrics_with_ends) - 1) :
        lyrics_with_ends[s + 1] = visible_lyrics[1]

\* C21: in a preview with the scrolling list, at every timestamp of the line
\* the preview time lies in (the moments of its scroll transition included),
\* the fragment generated from the reduced window gives each window line the
\* state the fragment generated from the full timeline gives it: the same
\* line is highlighted, the line is as far from the current line (which sets
\* its opacity) and it stands at the same vertical position.
C21_WindowMatchesFullTimeline ==
    (ListFragment /\ IsPreview(path)) =>
        LET s == WindowOffset
            c == current_lyric_index(lyrics_with_ends, preview_time)
            now == {t \in Times : /\ lyrics_with_ends[c + 1][1] <= t
                                  /\ t < lyrics_with_ends[c + 1][2]}
        IN /\ preview_time \in now
           /\ \A i \in 0..(Len(visible_lyrics) - 1) :
                /\ visible_lyrics[i + 1] = lyrics_with_ends[i + s + 1]
                /\ \A t \in now :
                    /\ is_highlighted_expr(visible_lyrics, i, t)
                            <=> is_highlighted_expr(lyrics_with_ends, i + s, t)
                    /\ i - highlight_idx_expr(visible_lyrics, t)
                            = (i + s) - highlight_idx_expr(lyrics_with_ends, t)
                    /\ \A lh \in LineHeights :
                            y_pos_primary_expr(visible_lyrics, i, t, lh)
                                = y_pos_primary_expr(lyrics_with_ends, i + s, t, lh)
           /\ is_highlighted_expr(visible_lyrics, c - s, preview_time)

\* The window starts three lines into the long timeline, and one tick after
\* the preview time the list is between two targets.
C21_Witness ==
    /\ ListFragment
    /\ IsPreview(path)
    /\ Len(lyrics_with_ends) = MaxLongLines
    /\ preview_time = 20
    /\ WindowOffset = 3
    /\ Len(visible_lyrics) = 2 * window_size + 1
    /\ \A lh \in LineHeights :
            /\ scroll_y_expr(visible_lyrics, 21, lh) < get_target_y(6, lh) * 1000
            /\ scroll_y_expr(visible_lyrics, 21, lh) > get_target_y(7, lh) * 1000
            /\ scroll_y_expr(lyrics_with_ends, 21, lh) < get_target_y(9, lh) * 1000
            /\ scroll_y_expr(lyrics_with_ends, 21, lh) > get_target_y(10, lh) * 1000

\* What line j's branch of the scroll chain gives at t, for t from line j's
\* start on: the chain as the loop has built it up to line j.
BranchOf(j, t, lh) == scroll_chain(visible_lyrics, j, t, lh)

StartOf(j) == visible_lyrics[j + 1][1]

\* C22 as stated: for every j >= 1 the offset line j-1's branch gives as t
\* reaches start_j is line j-1's target, the value line j's transition starts
\* from, in every timeline, also one with a line shorter than the transition.
C22_NoJumpAtAnyBoundary ==
    ListFragment =>
        \A lh \in LineHeights : \A j \in 1..(Len(visible_lyrics) - 1) :
            /\ BranchOf(j - 1, StartOf(j), lh) = get_target_y(j - 1, lh) * 1000
            /\ transition_expr(visible_lyrics, j, StartOf(j), lh)
                    = get_target_y(j - 1, lh) * 1000

\* Where the offset does and does not jump: line j's transition always
\* starts from line j-1's target; line j-1's branch has arrived there when
\* line j-1 is the first line or lasts at least the transition duration, and
\* is still above it, so that the offset jumps at start_j, when a later line
\* j-1 is shorter.
JumpsOnlyAfterShortLines ==
    ListFragment =>
        \A lh \in LineHeights : \A j \in 1..(Len(visible_lyrics) - 1) :
            LET arrived == BranchOf(j - 1, StartOf(j), lh)
                from == transition_expr(visible_lyrics, j, StartOf(j), lh)
                lasts == StartOf(j) - StartOf(j - 1)
            IN /\ from = get_target_y(j - 1, lh) * 1000
               /\ (j = 1 \/ lasts >= TRANSITION_DURATION) => arrived = from
               /\ (j > 1 /\ lasts < TRANSITION_DURATION) => arrived > from

\* A timeline whose first and second lines are both shorter than the
\* transition: the first line's branch rests at its target, the second
\* line's branch is cut off on its way.
ShortLinesCutOff ==
    /\ ListFragment
    /\ Len(visible_lyrics) >= 3
    /\ StartOf(1) - StartOf(0) < TRANSITION_DURATION
    /\ StartOf(2) - StartOf(1) < TRANSITION_DURATION
    /\ \A lh \in LineHeights :
            /\ BranchOf(0, StartOf(1), lh) = get_target_y(0, lh) * 1000
            /\ BranchOf(1, StartOf(2), lh) > get_target_y(1, lh) * 1000
            /\ BranchOf(1, StartOf(2), lh) < get_target_y(0, lh) * 1000

(***************************************************************************)
(* Filter-graph composer.  A stream reference is an input stream of the    *)
(* command ([0:v], [2:a]) or a label ([base_bg]).  A fragment is a list of *)
(* segments, each a chain of filters with the labels written before it     *)
(* (ins) and after it (outs); the first segment of a fragment reads the    *)
(* stream the fragment is applied to and its last segment leaves its       *)
(* output open.  A statement of the graph is a fragment with both ends     *)
(* closed; the statements are joined by ";".                               *)
(***************************************************************************)
Stream(idx, type) == [kind |-> "stream", idx |-> idx, name |-> type]
Label(name) == [kind |-> "label", idx |-> -1, name |-> name]
Segment(ins, chain, outs) == [ins |-> ins, chain |-> chain, outs |-> outs]

GENERATIVE_BACKGROUND_ANIMATIONS == {"gradient_wave"}
BackgroundAnims == {"static_blur", "gradient_wave", "wave_blur"}
CoverAnims == {"static_cover", "vinyl_record"}

\* int(duration * FPS), for a duration of dur ticks of 1/20 s.
int_duration_FPS(dur) == (dur * FPS) \div 20

\* zoompan=z=1:d={total_frames}:...
zoompan(total_frames) == "zoompan=d=" \o ToString(total_frames)

\* total_frames = int(duration * FPS) if duration > 0 else 1
get_static_background_filter(dur) ==
    LET total_frames == IF dur > 0 THEN int_duration_FPS(dur) ELSE 1
    IN <<Segment(<<>>, <<"scale", "crop", "boxblur", zoompan(total_frames)>>, <<>>)>>

get_gradient_wave_background_filter(dur) ==
    <<Segment(<<>>, <<"nullsrc", "format", "geq", "scale">>, <<>>)>>

get_wave_blur_background_filter(dur) ==
    LET total_frames == IF dur > 0 THEN int_duration_FPS(dur) ELSE 1
    IN <<Segment(<<>>, <<"scale", "crop", zoompan(total_frames), "geq", "boxblur",
                         "scale">>, <<>>)>>

get_static_cover_animation_filter_swapped(dur) ==
    <<Segment(<<>>, <<"scale", "setsar", "split">>, <<Label("main"), Label("refl_src")>>),
      Segment(<<>>, <<"color">>, <<Label("canvas")>>),
      Segment(<<Label("refl_src")>>, <<"vflip", "crop", "format", "geq", "boxblur">>,
              <<Label("refl")>>),
      Segment(<<Label("tmp"), Label("refl")>>, <<"overlay">>, <<Label("with_refl")>>),
      Segment(<<Label("canvas"), Label("main")>>, <<"overlay">>, <<Label("tmp")>>),
      Segment(<<Label("with_refl")>>,
              <<zoompan(IF dur > 20 THEN int_duration_FPS(dur) ELSE 1)>>,
              <<>>)>>

\* ",".join(filter_chains), with
\* total_frames = int(duration * FPS) if duration > 1 else 1; one second is
\* 20 ticks.
get_static_cover_animation_filter(dur) ==
    LET total_frames == IF dur > 20 THEN int_duration_FPS(dur) ELSE 1
    IN
    <<Segment(<<>>, <<"scale", "setsar", "split">>, <<Label("main"), Label("refl_src")>>),
      Segment(<<>>, <<"color">>, <<Label("canvas")>>),
      Segment(<<Label("refl_src")>>, <<"vflip", "crop", "format", "geq", "boxblur">>,
              <<Label("refl")>>),
      Segment(<<Label("canvas"), Label("main")>>, <<"overlay">>, <<Label("tmp")>>),
      Segment(<<Label("tmp"), Label("refl")>>, <<"overlay">>, <<Label("with_refl")>>),
      Segment(<<Label("with_refl")>>, <<zoompan(total_frames)>>, <<>>)>>

\* (prepare_inputs + apply_effects).replace(";", ","), with
\* total_frames = max(1, int(duration * FPS)).
get_vinyl_record_animation_filter(dur) ==
    LET total_frames == Max(1, int_duration_FPS(dur))
    IN
    <<Segment(<<>>, <<"split">>, <<Label("label_src"), Label("canvas_src")>>),
      Segment(<<Label("label_src")>>, <<"scale", "setsar">>, <<Label("label")>>),
      Segment(<<Label("canvas_src")>>, <<"scale", "format", "lutrgb">>,
              <<Label("black_canvas")>>),
      Segment(<<Label("black_canvas"), Label("label")>>, <<"overlay">>,
              <<Label("static_record")>>),
      Segment(<<Label("static_record")>>,
              <<"scale", "setsar", "format", "geq", "scale", zoompan(total_frames),
                "rotate">>,
              <<>>)>>

\* BACKGROUND_ANIMATIONS[name](W=W, H=H, FPS=FPS, duration=duration)
BACKGROUND_ANIMATIONS(name, dur) ==
    CASE name = "static_blur" -> get_static_background_filter(dur)
      [] name = "gradient_wave" -> get_gradient_wave_background_filter(dur)
      [] name = "wave_blur" -> get_wave_blur_background_filter(dur)

\* COVER_ANIMATIONS[name](duration=duration)
COVER_ANIMATIONS(name, dur) ==
    CASE name = "static_cover" -> get_static_cover_animation_filter(dur)
      [] name = "vinyl_record" -> get_vinyl_record_animation_filter(dur)

\* f"{ins}{fragment}{outs}": the labels written before the fragment lead its
\* first segment, those written after it close its last segment.
Statement(ins, fragment, outs) ==
    [k \in 1..Len(fragment) |->
        Segment((IF k = 1 THEN ins ELSE <<>>) \o fragment[k].ins,
                fragment[k].chain,
                fragment[k].outs \o (IF k = Len(fragment) THEN outs ELSE <<>>))]

background_stream_idx_ignores_separate(bg_anim, bg_path, cover) ==
    IF bg_anim \notin GENERATIVE_BACKGROUND_ANIMATIONS THEN 1 ELSE 0

\* 1 if not is_generative_bg and use_separate_bg else 0
background_stream_idx(bg_anim, bg_path, cover) ==
    IF bg_anim \notin GENERATIVE_BACKGROUND_ANIMATIONS /\ bg_path # cover
        THEN 1 ELSE 0

cover_stream_idx == 0

\* The chain of the last statement: the text fragment, the song-info and
\* timer overlays, the pixel format and, for a preview, the frame selector.
preview_frame_whole_seconds(t) == (t \div 20) * FPS

\* int(params.preview_time * FPS), for a preview time t in ticks of 1/20 s.
preview_frame(t) == (t * FPS) \div 20

\* select='eq(n\,{frame})'
select(frame) == "select=eq(n\\," \o ToString(frame) \o ")"

\* A filter string is kept as the sequence of its filters and of the
\* separators "," written between them.
\* ",".join(parts)
RECURSIVE join(_)
join(parts) ==
    IF parts = <<>> THEN <<>>
    ELSE IF Len(parts) = 1 THEN <<parts[1]>>
    ELSE <<parts[1], ",">> \o join(Tail(parts))

\* The song-info overlay, present with a title or an artist, and the timer.
info_filters(song_info) ==
    (IF song_info THEN <<"drawtext">> ELSE <<>>) \o <<"drawtext">>

combined_text_filter_always_comma(text_filter_str, info) ==
    IF info # <<>> THEN text_filter_str \o <<",">> \o join(info)
    ELSE text_filter_str

\* combined_text_filter = text_filter_str, extended by the joined info filters
\* after a "," when it is not empty and replaced by them when it is.
combined_text_filter(text_filter_str, info) ==
    IF info # <<>>
        THEN IF text_filter_str # <<>>
                THEN text_filter_str \o <<",">> \o join(info)
                ELSE join(info)
    ELSE text_filter_str

\* f"{combined_text_filter}{filter_separator}format=yuv420p" and, for a
\* preview, f"{final_chain},select=...": the text between the labels
\* [final_bg] and [v].
final_chain_str(text_filters, song_info, is_preview, preview_t) ==
    LET text_filter_str == join([k \in 1..Len(text_filters) |-> "drawtext"])
        combined == combined_text_filter(text_filter_str, info_filters(song_info))
        filter_separator == IF combined # <<>> THEN <<",">> ELSE <<>>
    IN combined \o filter_separator \o <<"format">>
       \o (IF is_preview THEN <<",", select(preview_frame(preview_t))>> ELSE <<>>)

\* The filters a filter string is read as: what stands between its
\* separators, the empty string where nothing stands there.
RECURSIVE chain_of(_, _)
chain_of(str, filter) ==
    IF str = <<>> THEN <<filter>>
    ELSE IF Head(str) = "," THEN <<filter>> \o chain_of(Tail(str), "")
    ELSE chain_of(Tail(str), filter \o Head(str))

final_chain(text_filters, song_info, is_preview, preview_t) ==
    chain_of(final_chain_str(text_filters, song_info, is_preview, preview_t), "")

_build_filter_complex(bg_anim, cover_anim_name, bg_path, cover, params_duration, text_filters, song_info, is_preview, preview_t, audio_stream_idx) ==
    <<IF bg_anim \in GENERATIVE_BACKGROUND_ANIMATIONS
          THEN Statement(<<>>, BACKGROUND_ANIMATIONS(bg_anim, params_duration),
                         <<Label("base_bg")>>)
          ELSE Statement(<<Stream(background_stream_idx(bg_anim, bg_path, cover), "v")>>,
                         BACKGROUND_ANIMATIONS(bg_anim, params_duration),
                         <<Label("base_bg")>>),
      <<Segment(<<Stream(audio_stream_idx, "a")>>, <<"showwaves">>, <<Label("waves")>>)>>,
      <<Segment(<<Label("base_bg"), Label("waves")>>, <<"overlay">>,
                <<Label("bg_with_waves")>>)>>,
      Statement(<<Stream(cover_stream_idx, "v")>>,
                COVER_ANIMATIONS(cover_anim_name, params_duration),
                <<Label("fg_cover")>>),
      <<Segment(<<Label("bg_with_waves"), Label("fg_cover")>>, <<"overlay">>,
                <<Label("final_bg")>>)>>,
      <<Segment(<<Label("final_bg")>>,
                final_chain(text_filters, song_info, is_preview, preview_t),
                <<Label("v")>>)>> >>

(***************************************************************************)
(* Render driver.                                                          *)
(***************************************************************************)
CoverPath == "cover.png"
AudioPath == "audio.mp3"

\* command_inputs, with its '-i' words.
CommandInputs(bg_anim, bg_path) ==
    <<"-i", CoverPath>>
    \o (IF bg_anim \notin GENERATIVE_BACKGROUND_ANIMATIONS /\ bg_path # CoverPath
            THEN <<"-i", bg_path>> ELSE <<>>)

Paths == {"web_preview", "web_video", "desktop_preview", "desktop_video"}
IsWeb(p) == p \in {"web_preview", "web_video"}

\* A message handed to the logger: what it says and, for output of the
\* rendering process, which of the process's lines (numbered from 1) it holds.
Message(msg, lines) == [msg |-> msg, lines |-> lines]

MAX_LOGS == 100

add_log_drop_newest(lg, m) ==
    LET appended == Append(lg, m)
    IN IF Len(appended) > MAX_LOGS THEN SubSeq(appended, 1, MAX_LOGS) ELSE appended

\* TaskManager.add_log: append, then pop(0) when more than 100 are kept.
add_log(lg, m) ==
    LET appended == Append(lg, m)
    IN IF Len(appended) > MAX_LOGS THEN Tail(appended) ELSE appended

\* WebLogger.status_update keeps the message in the task's logs;
\* QtProglogLogger.status_update emits it to the window's log.
status_update(p, lg, m) == IF IsWeb(p) THEN add_log(lg, m) ELSE Append(lg, m)

RECURSIVE status_updates(_, _, _)
status_updates(p, lg, ms) ==
    IF ms = <<>> THEN lg
    ELSE status_updates(p, status_update(p, lg, Head(ms)), Tail(ms))

Log(ms) ==
    /\ messages' = messages \o ms
    /\ logs' = status_updates(path, logs, ms)

\* The messages of _get_visible_lyrics.
PreviewMessages(lyrics, anim, t, is_preview) ==
    IF ~is_preview THEN <<>>
    ELSE <<Message("preview_filter", <<>>)>>
         \o (IF current_lyric_index(lyrics, t) = -1
                THEN <<Message("preview_no_lyric", <<>>)>>
             ELSE IF anim = "fade_slide" THEN <<Message("preview_one_line", <<>>)>>
             ELSE IF anim = "scroll_list" THEN <<Message("preview_window", <<>>)>>
             ELSE <<>>)

\* The names a request can carry: the desktop window offers the catalog's
\* keys; a web request carries any string.
AnimNames(p, catalog) == IF IsWeb(p) THEN catalog \cup {"unknown"} ELSE catalog

RenderLrcData ==
    {<<>>} \cup {EntriesOf([i \in 1..n |-> 12 * (i - 1)]) : n \in {1, MaxLines}}
RenderDurations == {0, 4, MaxTime}
RenderPreviewTimes == {0, 4, 12, MaxTime - 2}
RenderStdoutLines == {0, 2}
OutputStates == {"missing", "empty", "nonempty"}

DriverNotStarted ==
    /\ pc = "pending"
    /\ duration = 0
    /\ lyrics_with_ends = <<>>
    /\ visible_lyrics = <<>>
    /\ drawtext_filters = <<>>
    /\ command_inputs = <<>>
    /\ audio_input_idx = -1
    /\ command_maps = <<>>
    /\ filters = <<>>
    /\ returncode = -1
    /\ output_file = "missing"
    /\ outcome = "none"
    /\ status = IF IsWeb(path) THEN "pending" ELSE "none"
    /\ error = "none"
    /\ probe_started = FALSE
    /\ lrc_parsed = FALSE
    /\ temp_filter_file = "none"
    /\ ffmpeg_started = FALSE
    /\ lines_read = 0
    /\ messages = <<>>
    /\ logs = <<>>
    /\ NoProgressYet
    /\ NoTasks
    /\ NoPureInput

\* A request as its entry point receives it: create_task has made the web
\* task ("pending"); the desktop worker has been constructed with its params.
Init ==
    /\ path \in Paths
    /\ background_anim \in AnimNames(path, BackgroundAnims)
    /\ cover_anim \in AnimNames(path, CoverAnims)
    /\ text_anim \in AnimNames(path, TextAnims)
    /\ background_path \in {CoverPath, "bg.png"}
    /\ lrc_data \in RenderLrcData
    /\ audio_duration \in RenderDurations
    /\ preview_time \in RenderPreviewTimes
    /\ has_song_info \in BOOLEAN
    /\ stdout_lines \in RenderStdoutLines
    /\ time_markers = <<>>
    /\ DriverNotStarted

RequestUnchanged ==
    UNCHANGED <<path, background_anim, text_anim, cover_anim, background_path,
                lrc_data, audio_duration, preview_time, has_song_info,
                stdout_lines, time_markers, TaskVars, PureVars>>

ProgressUnchanged == UNCHANGED <<last_percent, task_progress, progress_emitted>>

GraphUnchanged ==
    UNCHANGED <<lyrics_with_ends, visible_lyrics, drawtext_filters,
                command_inputs, audio_input_idx, command_maps, filters>>

\* The finally clause of _process_media: its body is "pass".
Cleanup == temp_filter_file' = temp_filter_file

\* The except clauses of the four entry points: task_manager.set_error for a
\* web task (status, then add_log of the error), finished.emit with an error
\* message for a desktop worker.  ms are the messages logged before the raise.
ReportFailure(err, ms) ==
    /\ outcome' = "failure"
    /\ error' = err
    /\ status' = IF IsWeb(path) THEN "failed" ELSE status
    /\ result' = result
    /\ Log(ms \o (IF IsWeb(path) THEN <<Message("error", <<>>)>> ELSE <<>>))
    /\ Cleanup
    /\ pc' = "done"

\* task_manager.set_result for a web task, finished.emit without an error
\* message (preview) or with the success message (video) for a desktop worker.
ReportSuccess(ms) ==
    /\ outcome' = "success"
    /\ error' = error
    /\ status' = IF IsWeb(path) THEN "completed" ELSE status
    /\ result' = IF IsWeb(path) THEN "output_url" ELSE result
    /\ Log(ms)
    /\ Cleanup
    /\ pc' = "done"

\* run_preview_task / run_video_task: update_status(task_id, "processing");
\* the worker threads start without a task status.
StartTask ==
    /\ pc = "pending"
    /\ status' = IF IsWeb(path) THEN "processing" ELSE status
    /\ pc' = "probe"
    /\ UNCHANGED <<duration, returncode, output_file, outcome, DriverVars>>
    /\ RequestUnchanged
    /\ ProgressUnchanged
    /\ GraphUnchanged

\* _get_media_duration returns the probed duration.
ProbeOk ==
    /\ pc = "probe"
    /\ probe_started' = TRUE
    /\ duration' = audio_duration
    /\ Log(<<Message("analysing", <<>>), Message("duration", <<>>)>>)
    /\ pc' = "parse"
    /\ UNCHANGED <<returncode, output_file, outcome, result, status, error,
                   lrc_parsed, temp_filter_file, ffmpeg_started, lines_read>>
    /\ RequestUnchanged
    /\ ProgressUnchanged
    /\ GraphUnchanged

ProbeFail_after_parse ==
    /\ pc = "probe"
    /\ probe_started' = TRUE
    /\ lrc_parsed' = TRUE
    /\ \E err \in {"probe_exit", "probe_output"} :
        ReportFailure(err, <<Message("parsing", <<>>), Message("analysing", <<>>)>>)
    /\ UNCHANGED <<duration, returncode, output_file, ffmpeg_started, lines_read>>
    /\ RequestUnchanged
    /\ ProgressUnchanged
    /\ GraphUnchanged

\* _get_media_duration raises: subprocess.run(check=True) on a non-zero exit
\* code, float() on output that is not a number.
ProbeFail ==
    /\ pc = "probe"
    /\ probe_started' = TRUE
    /\ \E err \in {"probe_exit", "probe_output"} :
        ReportFailure(err, <<Message("analysing", <<>>)>>)
    /\ UNCHANGED <<duration, returncode, output_file, lrc_parsed,
                   ffmpeg_started, lines_read>>
    /\ RequestUnchanged
    /\ ProgressUnchanged
    /\ GraphUnchanged

\* if not lrc_data: raise ValueError
ParseEmpty ==
    /\ pc = "parse"
    /\ lrc_data = <<>>
    /\ lrc_parsed' = TRUE
    /\ ReportFailure("empty_lyrics", <<Message("parsing", <<>>)>>)
    /\ UNCHANGED <<duration, returncode, output_file, probe_started,
                   ffmpeg_started, lines_read>>
    /\ RequestUnchanged
    /\ ProgressUnchanged
    /\ GraphUnchanged

\* The catalog lookups of _build_filter_complex raise KeyError: the background
\* at line 118, the cover at 136, the text animation at 146, which is reached
\* only with visible lyrics.
UnknownAnimation(vis) ==
    \/ background_anim \notin BackgroundAnims
    \/ cover_anim \notin CoverAnims
    \/ (vis # <<>> /\ text_anim \notin TextAnims)

BuildMessages(lwe) ==
    <<Message("parsing", <<>>), Message("build_graph", <<>>)>>
    \o PreviewMessages(lwe, text_anim, preview_time, IsPreview(path))

BuildKeyError ==
    /\ pc = "parse"
    /\ lrc_data # <<>>
    /\ lrc_parsed' = TRUE
    /\ LET lwe == LyricsWithEnds(lrc_data, duration)
           vis == _get_visible_lyrics(lwe, text_anim, preview_time, IsPreview(path))
       IN /\ UnknownAnimation(vis)
          /\ ReportFailure("unknown_animation", BuildMessages(lwe))
    /\ UNCHANGED <<duration, returncode, output_file, probe_started,
                   ffmpeg_started, lines_read>>
    /\ RequestUnchanged
    /\ ProgressUnchanged
    /\ GraphUnchanged

\* _process_media from the inputs to the start of the rendering process:
\* command_inputs, the audio index, the graph, the script file, the command's
\* -map words, Popen.
BuildCommand ==
    /\ pc = "parse"
    /\ lrc_data # <<>>
    /\ lrc_parsed' = TRUE
    /\ LET image_inputs == CommandInputs(background_anim, background_path)
           idx == Len(image_inputs) \div 2
           lwe == LyricsWithEnds(lrc_data, duration)
           vis == _get_visible_lyrics(lwe, text_anim, preview_time, IsPreview(path))
           txt == IF vis = <<>> THEN <<>> ELSE TextFilters(text_anim, vis)
       IN /\ ~UnknownAnimation(vis)
          /\ command_inputs' = image_inputs \o <<"-i", AudioPath>>
          /\ audio_input_idx' = idx
          /\ lyrics_with_ends' = lwe
          /\ visible_lyrics' = vis
          /\ drawtext_filters' = txt
          /\ filters' = _build_filter_complex(background_anim, cover_anim,
                            background_path, CoverPath, duration, txt, has_song_info,
                            IsPreview(path), preview_time, idx)
          /\ command_maps' = <<Label("v")>>
                \o (IF ~IsPreview(path) THEN <<Stream(idx, "a")>> ELSE <<>>)
          /\ Log(BuildMessages(lwe)
                 \o <<Message("script_written", <<>>), Message("ffmpeg_start", <<>>)>>)
    /\ temp_filter_file' = "exists"
    /\ ffmpeg_started' = TRUE
    /\ pc' = "run"
    /\ UNCHANGED <<duration, returncode, output_file, outcome, result, status,
                   error, probe_started, lines_read>>
    /\ RequestUnchanged
    /\ ProgressUnchanged

\* _run_ffmpeg_process is given the duration only for a full render; both
\* loggers have progress_update.
ReadsLineByLine == ~IsPreview(path) /\ duration > 0

\* The time marker of the process's k-th line: <<current_time>> in ticks, or
\* <<>> when the line has none.
marker_of(k) == IF k <= Len(time_markers) THEN time_markers[k] ELSE <<>>

\* percent = int(100 * current_time / duration)
percent(current_time, total) == (100 * current_time) \div total

progress_update_accepts_any(p, last) == TRUE

\* WebLogger.progress_update, QtProglogLogger.progress_update:
\* if percent > self._last_percent
progress_update_accepts(p, last) == p > last

\* logger.progress_update(percent): a web task stores an accepted value, a
\* desktop worker emits it.
progress_update(p) ==
    IF progress_update_accepts(p, last_percent)
        THEN /\ last_percent' = p
             /\ task_progress' = IF IsWeb(path) THEN p ELSE task_progress
             /\ progress_emitted' = IF IsWeb(path) THEN progress_emitted
                                     ELSE Append(progress_emitted, p)
        ELSE ProgressUnchanged

\* for line in iter(process.stdout.readline, ''): logger.status_update(line.strip())
\* and, if the line has a time marker, logger.progress_update(percent).
FfmpegLine ==
    /\ pc = "run"
    /\ ReadsLineByLine
    /\ lines_read < stdout_lines
    /\ lines_read' = lines_read + 1
    /\ Log(<<Message("ffmpeg", <<lines_read + 1>>)>>)
    /\ LET marker == marker_of(lines_read + 1)
       IN IF marker # <<>> THEN progress_update(percent(marker[1], duration))
                           ELSE ProgressUnchanged
    /\ UNCHANGED <<pc, duration, returncode, output_file, outcome, result,
                   status, error, probe_started, lrc_parsed, temp_filter_file,
                   ffmpeg_started>>
    /\ RequestUnchanged
    /\ GraphUnchanged

\* The rendering process exits, having left the output file in some state.
\* A preview reads the whole output at once: process.communicate(), then
\* if stdout: logger.status_update(stdout).
FfmpegExit ==
    /\ pc = "run"
    /\ IF ReadsLineByLine
          THEN /\ lines_read = stdout_lines
               /\ UNCHANGED <<lines_read, messages, logs>>
          ELSE /\ lines_read' = stdout_lines
               /\ Log(IF stdout_lines > 0
                        THEN <<Message("ffmpeg", [k \in 1..stdout_lines |-> k])>>
                        ELSE <<>>)
    /\ \E rc \in {0, 1}, f \in OutputStates :
        /\ returncode' = rc
        /\ output_file' = f
    /\ pc' = "exited"
    /\ UNCHANGED <<duration, outcome, result, status, error, probe_started,
                   lrc_parsed, temp_filter_file, ffmpeg_started>>
    /\ RequestUnchanged
    /\ ProgressUnchanged
    /\ GraphUnchanged

OutputPresent_exists == output_file # "missing"

\* output_path.exists() and output_path.stat().st_size > 0
OutputPresent == output_file = "nonempty"

\* if process.returncode != 0: raise CalledProcessError
FinishNonZero ==
    /\ pc = "exited"
    /\ returncode # 0
    /\ ReportFailure("ffmpeg_exit", <<>>)
    /\ UNCHANGED <<duration, returncode, output_file, probe_started, lrc_parsed,
                   ffmpeg_started, lines_read>>
    /\ RequestUnchanged
    /\ ProgressUnchanged
    /\ GraphUnchanged

\* logger.status_update of the driver's success message, before it returns.
Succeeded == <<Message("succeeded", <<>>)>>

\* run_preview_task, run_video_task after the driver returned.
FinishWeb ==
    /\ pc = "exited"
    /\ returncode = 0
    /\ IsWeb(path)
    /\ IF OutputPresent THEN ReportSuccess(Succeeded)
                        ELSE ReportFailure("bad_output", Succeeded)
    /\ UNCHANGED <<duration, returncode, output_file, probe_started, lrc_parsed,
                   ffmpeg_started, lines_read>>
    /\ RequestUnchanged
    /\ ProgressUnchanged
    /\ GraphUnchanged

\* PreviewWorker.run after the driver returned; the image may fail to load.
FinishDesktopPreview ==
    /\ pc = "exited"
    /\ returncode = 0
    /\ path = "desktop_preview"
    /\ \E pixmap_is_null \in BOOLEAN :
        IF OutputPresent /\ ~pixmap_is_null THEN ReportSuccess(Succeeded)
                                             ELSE ReportFailure("bad_output", Succeeded)
    /\ UNCHANGED <<duration, returncode, output_file, probe_started, lrc_parsed,
                   ffmpeg_started, lines_read>>
    /\ RequestUnchanged
    /\ ProgressUnchanged
    /\ GraphUnchanged

\* VideoWorker.run after the driver returned.
FinishDesktopVideo ==
    /\ pc = "exited"
    /\ returncode = 0
    /\ path = "desktop_video"
    /\ ReportSuccess(Succeeded)
    /\ UNCHANGED <<duration, returncode, output_file, probe_started, lrc_parsed,
                   ffmpeg_started, lines_read>>
    /\ RequestUnchanged
    /\ ProgressUnchanged
    /\ GraphUnchanged

Next ==
    \/ StartTask
    \/ ProbeOk
    \/ ProbeFail
    \/ ParseEmpty
    \/ BuildKeyError
    \/ BuildCommand
    \/ FfmpegLine
    \/ FfmpegExit
    \/ FinishNonZero
    \/ FinishWeb
    \/ FinishDesktopPreview
    \/ FinishDesktopVideo

Spec == Init /\ [][Next]_vars

\* The same driver on requests whose rendering process prints many lines.
LogStdoutLines == {0, 1, MaxStdoutLines}

InitLog ==
    /\ path \in Paths
    /\ background_anim \in AnimNames(path, {"static_blur"})
    /\ cover_anim = "static_cover"
    /\ text_anim = "fade_slide"
    /\ background_path = CoverPath
    /\ lrc_data \in {<<>>, EntriesOf(<<0>>)}
    /\ audio_duration = MaxTime
    /\ preview_time = 0
    /\ has_song_info = FALSE
    /\ stdout_lines \in LogStdoutLines
    /\ time_markers = <<>>
    /\ DriverNotStarted

SpecLog == InitLog /\ [][Next]_vars

\* The same driver on requests whose rendering process prints time markers:
\* every line carries one of MarkerTimes, in any order, or none.
MaxMarkerLines == 3
MarkerTimes == {0, 2, 4, MaxTime + 4}
Markers == {<<>>} \cup {<<t>> : t \in MarkerTimes}

InitProgress ==
    /\ path \in Paths
    /\ background_anim \in AnimNames(path, {"static_blur"})
    /\ cover_anim = "static_cover"
    /\ text_anim = "fade_slide"
    /\ background_path = CoverPath
    /\ lrc_data \in {<<>>, EntriesOf(<<0>>)}
    /\ audio_duration \in {4, MaxTime}
    /\ preview_time = 0
    /\ has_song_info = FALSE
    /\ stdout_lines = MaxMarkerLines
    /\ time_markers \in [1..MaxMarkerLines -> Markers]
    /\ DriverNotStarted

SpecProgress == InitProgress /\ [][Next]_vars

(***************************************************************************)
(* Properties of the composed graph and of the driver's outcome.           *)
(***************************************************************************)
GraphBuilt == filters # <<>>

RECURSIVE Flatten(_)
Flatten(statements) ==
    IF statements = <<>> THEN <<>>
    ELSE Head(statements) \o Flatten(Tail(statements))

Range(seq) == {seq[k] : k \in 1..Len(seq)}
StreamsOf(refs) == {r \in Range(refs) : r.kind = "stream"}
LabelsOf(refs) == {r.name : r \in {x \in Range(refs) : x.kind = "label"}}

\* The 0-based input of the command at position k, and the number of inputs.
InputAt(k) == command_inputs[2 * k + 2]
NumInputs == Len(command_inputs) \div 2
ImageInputsBeforeAudio ==
    Cardinality({k \in 0..(NumInputs - 1) :
        InputAt(k) # AudioPath /\ \E a \in k..(NumInputs - 1) : InputAt(a) = AudioPath})

\* C1: the graph's stream indices agree with the command's inputs: the cover
\* fragment reads input 0, the cover; the background fragment reads input 1,
\* the background image, exactly when the animation is image-sourced and the
\* background path differs from the cover path, input 0 when image-sourced
\* with no separate image, and no input when generative; the audio index of
\* the graph and of the audio mapping is the number of image inputs before
\* the audio input; every index is below the number of inputs.
C1_StreamIndices ==
    GraphBuilt =>
        LET generative == background_anim = "gradient_wave"
            separate == background_path # CoverPath
            bg == filters[1]
            waves == filters[2]
            cover == filters[4]
            segs == Flatten(filters)
        IN /\ cover[1].ins = <<Stream(0, "v")>>
           /\ InputAt(0) = CoverPath
           /\ generative => \A k \in 1..Len(bg) : StreamsOf(bg[k].ins) = {}
           /\ (~generative /\ separate) =>
                /\ bg[1].ins = <<Stream(1, "v")>>
                /\ InputAt(1) = background_path
           /\ (~generative /\ ~separate) => bg[1].ins = <<Stream(0, "v")>>
           /\ waves[1].ins = <<Stream(ImageInputsBeforeAudio, "a")>>
           /\ InputAt(ImageInputsBeforeAudio) = AudioPath
           /\ StreamsOf(command_maps) \subseteq {Stream(ImageInputsBeforeAudio, "a")}
           /\ ~IsPreview(path) => StreamsOf(command_maps) # {}
           /\ \A j \in 1..Len(segs) :
                \A r \in StreamsOf(segs[j].ins) : r.idx < NumInputs
           /\ \A r \in StreamsOf(command_maps) : r.idx < NumInputs

C1_Witness ==
    /\ GraphBuilt
    /\ background_anim = "wave_blur"
    /\ background_path = "bg.png"
    /\ path = "web_video"
    /\ filters[1][1].ins = <<Stream(1, "v")>>
    /\ filters[2][1].ins = <<Stream(2, "a")>>
    /\ command_maps = <<Label("v"), Stream(2, "a")>>
    /\ NumInputs = 3

\* C2: in the composed graph, cover fragment included, every label a segment
\* reads was written by an earlier segment, no label is written twice, every
\* written label other than v is read, and v is written once, at the end of
\* the last statement, and is the only label the command maps.
C2_NoForwardReference ==
    GraphBuilt =>
        LET segs == Flatten(filters)
            n == Len(segs)
            last == filters[Len(filters)]
        IN /\ \A j \in 1..n : \A l \in LabelsOf(segs[j].ins) :
                \E q \in 1..(j - 1) : l \in LabelsOf(segs[q].outs)
           /\ \A j \in 1..n : \A a, b \in 1..Len(segs[j].outs) :
                a # b => segs[j].outs[a] # segs[j].outs[b]
           /\ \A j, q \in 1..n :
                j # q => LabelsOf(segs[j].outs) \cap LabelsOf(segs[q].outs) = {}
           /\ \A j \in 1..n : \A l \in LabelsOf(segs[j].outs) :
                l # "v" => \E q \in 1..n : l \in LabelsOf(segs[q].ins)
           /\ Cardinality({j \in 1..n : "v" \in LabelsOf(segs[j].outs)}) = 1
           /\ last[Len(last)].outs = <<Label("v")>>
           /\ segs[n] = last[Len(last)]
           /\ LabelsOf(command_maps) = {"v"}

C2_Witness ==
    /\ GraphBuilt
    /\ cover_anim = "static_cover"
    /\ IsPreview(path)
    /\ Len(Flatten(filters)) = 11
    /\ "tmp" \in LabelsOf(Flatten(filters)[7].outs)
    /\ "tmp" \in LabelsOf(Flatten(filters)[8].ins)

\* C10: on every request path, exit code zero with a missing or empty output
\* file ends in failure, and a non-zero exit code ends in failure.
C10_BadOutputFails ==
    (pc = "done" /\ returncode # -1) =>
        /\ (returncode = 0 /\ output_file \in {"missing", "empty"}) =>
                outcome = "failure"
        /\ returncode # 0 => outcome = "failure"

(***************************************************************************)
(* Properties of the driver's steps.                                       *)
(***************************************************************************)
ProbeFailed == pc = "done" /\ error \in {"probe_exit", "probe_output"}
ValidationFailed == pc = "done" /\ error \in {"empty_lyrics", "unknown_animation"}

\* C11: when the duration probe fails, by its exit code or by output that is
\* not a number, the request fails and no later step has happened: the driver
\* has not parsed the lyric file, no graph is built, no script file is
\* written, the rendering process is not started.
C11_ProbeFailureStopsRequest ==
    ProbeFailed =>
        /\ outcome = "failure"
        /\ IsWeb(path) => status = "failed"
        /\ probe_started
        /\ ~lrc_parsed
        /\ lyrics_with_ends = <<>>
        /\ filters = <<>>
        /\ command_inputs = <<>>
        /\ temp_filter_file = "none"
        /\ ~ffmpeg_started
        /\ returncode = -1
        /\ \A k \in 1..Len(messages) :
                messages[k].msg \in {"analysing", "error"}

C11_Witness ==
    /\ ProbeFailed
    /\ error = "probe_output"
    /\ path = "web_video"
    /\ lrc_data # <<>>
    /\ status = "failed"

\* C12: a request that fails on an input validation error (the lyric file
\* parses to an empty list, or an animation name is not in its catalog) has
\* started no external process: neither the probe nor the rendering process.
C12_ValidationBeforeProcesses ==
    ValidationFailed => (~probe_started /\ ~ffmpeg_started)

\* C13: when the request has finished, by success or by failure, a filter
\* script file that was written has been removed.
C13_ScriptFileRemoved ==
    pc = "done" => temp_filter_file # "exists"

\* The chain of the segment that writes the graph's last label.
LastChain ==
    LET last == filters[Len(filters)]
    IN last[Len(last)].chain

\* A filter of a chain is a frame selector when it begins with "select=".
IsSelector(f) == Len(f) >= 7 /\ SubSeq(f, 1, 7) = "select="

C24_FinalChainWellFormed ==
    GraphBuilt =>
        LET last == filters[Len(filters)]
            chain == LastChain
            texts == Len(drawtext_filters)
            infos == IF has_song_info THEN 2 ELSE 1
        IN /\ Len(last) = 1
           /\ last[1].ins = <<Label("final_bg")>>
           /\ last[1].outs = <<Label("v")>>
           /\ \A k \in 1..Len(chain) : chain[k] # ""
           /\ Len(chain) = texts + infos + 1 + (IF IsPreview(path) THEN 1 ELSE 0)
           /\ \A k \in 1..(texts + infos) : chain[k] = "drawtext"
           /\ chain[texts + infos + 1] = "format"
           /\ visible_lyrics = <<>> <=> texts = 0

\* A preview at a time no line covers, without song info: the timer overlay
\* directly follows the input label.
C24_Witness ==
    /\ GraphBuilt
    /\ IsPreview(path)
    /\ lrc_data # <<>>
    /\ visible_lyrics = <<>>
    /\ ~has_song_info
    /\ LastChain = <<"drawtext", "format", select(preview_frame(preview_time))>>

\* The filters with which a statement turns a still image into a stream of
\* total_frames frames.
IsZoompan(f) == Len(f) >= 10 /\ SubSeq(f, 1, 10) = "zoompan=d="
ZoompansOf(statement) ==
    {f \in UNION {Range(statement[q].chain) : q \in 1..Len(statement)} :
        IsZoompan(f)}

BackgroundStatement == filters[1]
CoverStatement == filters[4]

\* C23: for every duration the cover fragment, static cover or vinyl record,
\* synthesizes from its still image the number of frames the static
\* background synthesizes: floor(duration * 60), which is 3 per tick, when
\* the duration is positive and 1 when it is not.
C23_CoverFramesAsBackground ==
    GraphBuilt =>
        LET frames == IF duration > 0 THEN 3 * duration ELSE 1
        IN /\ ZoompansOf(CoverStatement) = {zoompan(frames)}
           /\ background_anim = "static_blur" =>
                    ZoompansOf(BackgroundStatement) = {zoompan(frames)}

\* C25: for every preview time from 0 to the duration, the last position of
\* the slider included, the frame index of the preview's selector is less
\* than the number of frames the static background synthesizes, so that the
\* selected frame exists.
C25_SelectedFrameExists ==
    (GraphBuilt /\ IsPreview(path) /\ background_anim = "static_blur"
        /\ 0 <= preview_time /\ preview_time <= duration) =>
        \E frames \in 1..Max(1, 3 * duration) :
            /\ zoompan(frames) \in ZoompansOf(BackgroundStatement)
            /\ LastChain[Len(LastChain)] \in {select(n) : n \in 0..(frames - 1)}

ProcessFailed == pc = "done" /\ error \in {"ffmpeg_exit", "bad_output"}

\* The lines of the rendering process that a log holds, in the log's order.
RECURSIVE LinesIn(_)
LinesIn(lg) ==
    IF lg = <<>> THEN <<>>
    ELSE IF Len(lg) = 1 THEN lg[1].lines
    ELSE LET half == Len(lg) \div 2
         IN LinesIn(SubSeq(lg, 1, half)) \o LinesIn(SubSeq(lg, half + 1, Len(lg)))

AllLines == [k \in 1..stdout_lines |-> k]

LastOf(seq, n) == SubSeq(seq, Len(seq) - Min(n, Len(seq)) + 1, Len(seq))

\* C14 as stated: when the request ends in an external process error, every
\* line the rendering process printed is in the log the request exposes, in
\* order, however many lines there were.
C14_FullLogPreserved ==
    ProcessFailed => LinesIn(logs) = AllLines

\* C14 amended: every printed line was handed to the logger, in order; a
\* desktop request exposes every message; a web task exposes the most recent
\* 100 messages, in order, which is every message when there were at most 100.
C14_LogTailPreserved ==
    ProcessFailed =>
        /\ LinesIn(messages) = AllLines
        /\ ~IsWeb(path) => logs = messages
        /\ IsWeb(path) => logs = LastOf(messages, MAX_LOGS)
        /\ LinesIn(logs) = LastOf(AllLines, Len(LinesIn(logs)))

C14_Witness ==
    /\ ProcessFailed
    /\ path = "web_video"
    /\ returncode = 1
    /\ stdout_lines = MaxStdoutLines
    /\ Len(messages) > MAX_LOGS
    /\ Len(logs) = MAX_LOGS
    /\ logs[1].lines # <<>>
    /\ logs[1].lines # <<1>>


\* The order in which a web task's status may change.
StatusSteps ==
    {<<"pending", "processing">>, <<"processing", "completed">>,
     <<"processing", "failed">>}

\* C26: a web task is pending until its run starts, processing while the
\* driver runs, and completed or failed, one of the two, from the moment the
\* driver has returned or raised; its status changes only from pending to
\* processing and from processing to completed or failed; it is completed
\* only if the driver returned without an exception (exit code 0, no error
\* caught) and the output file exists and is not empty, and it has a result
\* exactly then; once it is completed or failed neither its status nor its
\* result changes.
C26_TaskLifecycle ==
    [][IsWeb(path) =>
        /\ pc = "pending" => status = "pending"
        /\ status' # status => <<status, status'>> \in StatusSteps
        /\ status \in {"completed", "failed"} =>
                (status' = status /\ result' = result)
        /\ pc' \notin {"pending", "done"} => status' = "processing"
        /\ pc' = "done" <=> status' \in {"completed", "failed"}
        /\ status' = "completed" =>
                /\ returncode' = 0
                /\ error' = "none"
                /\ output_file' = "nonempty"
        /\ status' = "completed" <=> result' # "none"
        /\ status' = "failed" <=> error' # "none"]_vars

C26_Witness ==
    /\ path = "web_video"
    /\ pc = "done"
    /\ status = "completed"
    /\ result = "output_url"
    /\ returncode = 0
    /\ output_file = "nonempty"

\* C27: whatever time markers the rendering process prints, in whatever
\* order of their times, the progress stored for a web task never decreases
\* and every value emitted to a desktop worker's progress signal is at least
\* as great as all values emitted before it.
C27_ProgressNeverDecreases ==
    [][/\ task_progress' >= task_progress
       /\ progress_emitted' # progress_emitted =>
            /\ Len(progress_emitted') = Len(progress_emitted) + 1
            /\ SubSeq(progress_emitted', 1, Len(progress_emitted)) = progress_emitted
            /\ \A k \in 1..Len(progress_emitted) :
                    progress_emitted[k] <= progress_emitted'[Len(progress_emitted')]
       /\ last_percent' >= last_percent]_vars

\* The markers come in decreasing order of time: the first is stored, the
\* later ones are not.
C27_Witness ==
    /\ path = "web_video"
    /\ duration = 4
    /\ time_markers = << <<4>>, <<2>>, <<0>> >>
    /\ lines_read = 3
    /\ task_progress = 100
    /\ last_percent = 100

\* C28: the progress percentage reported for a full render is an integer
\* from 0 to 100, whatever time marker the process prints, one later than
\* the probed duration included.
C28_PercentWithinHundred ==
    /\ task_progress \in 0..100
    /\ \A k \in 1..Len(progress_emitted) : progress_emitted[k] \in 0..100

(***************************************************************************)
(* Two video tasks of the web server, run at the same time.  A task is     *)
(* kept as its status, the title and artist of its lyric file (sequences   *)
(* of characters, empty when the tag is missing), its output file name     *)
(* and its result; the output directory holds, for each file name, the     *)
(* task whose rendering process wrote the file last.                       *)
(***************************************************************************)
TaskIds == {"id_1", "id_2"}
Titles == {<<>>, <<"S">>, <<"S", "?">>, <<"?">>}
Artists == {<<>>, <<"A">>}

\* c.isalpha() or c.isdigit() or c in " -_"
IsFilenameChar(c) == c \in {"S", "A", "1", " ", "-", "_"}

\* output_filename = f"video_{task_id}.mp4", replaced by the sanitized
\* "{artist} - {title}.mp4" or "{title}.mp4" when the lyric file has a
\* title and the sanitized name is not empty.
output_filename(task_id, title, artist) ==
    LET name == IF artist # <<>> THEN artist \o <<" ", "-", " ">> \o title
                ELSE title
        sanitized == strip(SelectSeq(name, IsFilenameChar))
    IN IF title # <<>> /\ sanitized # <<>>
          THEN sanitized \o <<".mp4">>
          ELSE <<"video_", task_id, ".mp4">>

\* task_manager.create_task("video"), with the lyric file the request names.
create_task(title, artist) ==
    [status |-> "pending", ti |-> title, ar |-> artist, output_path |-> <<>>,
     result |-> <<>>, at |-> "created"]

\* The rendering process writes its output file (ffmpeg -y overwrites).
WriteFile(dir, name, task_id) ==
    {f \in dir : f.name # name} \cup {[name |-> name, writer |-> task_id]}

\* The variables of a single render request, untouched by the task table.
RenderVars ==
    <<path, background_anim, text_anim, cover_anim, background_path, lrc_data,
      audio_duration, duration, preview_time, has_song_info, pc,
      lyrics_with_ends, visible_lyrics, drawtext_filters, command_inputs,
      audio_input_idx, command_maps, filters, returncode, output_file,
      outcome, status, DriverVars, PureVars>>

InitTasks ==
    /\ tasks \in [TaskIds -> {create_task(ti, ar) : ti \in Titles, ar \in Artists}]
    /\ output_dir = {}
    /\ lrc_data = <<>>
    /\ pc = "tasks"
    /\ NothingElse
    /\ NoPureInput

\* run_video_task up to the call of the driver: status processing, the
\* output path from the lyric file's metadata.
StartVideoTask(t) ==
    /\ tasks[t].at = "created"
    /\ tasks' = [tasks EXCEPT ![t].status = "processing",
                              ![t].output_path =
                                    output_filename(t, tasks[t].ti, tasks[t].ar),
                              ![t].at = "driver"]
    /\ UNCHANGED <<output_dir, RenderVars>>

\* create_karaoke_video(params) returns: the process has written the file.
CreateKaraokeVideo(t) ==
    /\ tasks[t].at = "driver"
    /\ output_dir' = WriteFile(output_dir, tasks[t].output_path, t)
    /\ tasks' = [tasks EXCEPT ![t].at = "returned"]
    /\ UNCHANGED RenderVars

\* create_karaoke_video(params) raises: except Exception -> set_error.
CreateKaraokeVideoRaises(t) ==
    /\ tasks[t].at = "driver"
    /\ tasks' = [tasks EXCEPT ![t].status = "failed", ![t].at = "done"]
    /\ UNCHANGED <<output_dir, RenderVars>>

\* if output_path.exists() and st_size > 0: set_result(video_url, filename)
\* else: set_error.
FinishVideoTask(t) ==
    /\ tasks[t].at = "returned"
    /\ tasks' = IF \E f \in output_dir : f.name = tasks[t].output_path
                    THEN [tasks EXCEPT ![t].status = "completed",
                                       ![t].result = tasks[t].output_path,
                                       ![t].at = "done"]
                    ELSE [tasks EXCEPT ![t].status = "failed", ![t].at = "done"]
    /\ UNCHANGED <<output_dir, RenderVars>>

NextTasks ==
    \E t \in TaskIds :
        \/ StartVideoTask(t)
        \/ CreateKaraokeVideo(t)
        \/ CreateKaraokeVideoRaises(t)
        \/ FinishVideoTask(t)

SpecTasks == InitTasks /\ [][NextTasks]_vars

\* C29: two distinct video tasks, also when they run at the same time, have
\* distinct output paths whatever the titles and artists of their lyric
\* files, so that the file a completed task reports as its result was
\* written by that task and by no other.
C29_DistinctOutputPaths ==
    /\ \A a, b \in TaskIds :
            (a # b /\ tasks[a].output_path # <<>> /\ tasks[b].output_path # <<>>)
                => tasks[a].output_path # tasks[b].output_path
    /\ \A t \in TaskIds :
            tasks[t].status = "completed"
                => [name |-> tasks[t].result, writer |-> t] \in output_dir
====
